---------------------------- MODULE Spec2Model ----------------------------
(***************************************************************************)
(* A model of pyifcb's permanent-identifier parser (ifcb/data/identifiers) *)
(* and of the Bin base class (ifcb/data/bins).                             *)
(*                                                                         *)
(* Python strings are TLA+ strings; a character is a string of length 1.   *)
(* A Python value that may be None (a capture group, a parsed field) is a  *)
(* sequence of length at most one: <<>> is None and <<v>> is the value v.  *)
(***************************************************************************)
EXTENDS Integers, Sequences, FiniteSets, TLC

None == <<>>
Some(v) == <<v>>

\* s[i:j+1] and s[i], empty outside the string as Python's slices are
Slice(s, i, j) ==
    LET a == IF i < 1 THEN 1 ELSE i
        b == IF j > Len(s) THEN Len(s) ELSE j
    IN  IF a > b THEN "" ELSE SubSeq(s, a, b)

Ch(s, i) == Slice(s, i, i)

(***************************************************************************)
(* The order of characters, for the ranges of a class ([0-9], [a-zA-Z]).   *)
(***************************************************************************)
OrdChars == "0123456789ABCDEFGHIJKLMNOPQRSTUVWXYZabcdefghijklmnopqrstuvwxyz"

OrdSet == {Ch(OrdChars, k) : k \in 1..Len(OrdChars)}

\* digits, then upper case, then lower case, in ASCII's order
Ord == [c \in OrdSet |-> CHOOSE k \in 1..Len(OrdChars) : Ch(OrdChars, k) = c]

IsDigit(c) == c \in {"0", "1", "2", "3", "4", "5", "6", "7", "8", "9"}

DigitVal(c) == Ord[c] - Ord["0"]

(***************************************************************************)
(* re.compile: the pattern's text parsed to a tree.  Nodes:                *)
(*   chr c | any | set items | bol | eol | bref idx | cat xs | alt xs      *)
(*   | grp idx x | rep min max x   (max = -1: unbounded; all greedy)       *)
(* Capturing groups are numbered by their opening parenthesis.  A parse    *)
(* step returns the node, the index after it and the groups opened so far. *)
(***************************************************************************)
RECURSIVE ParseAlt(_, _, _), ParseAltAcc(_, _, _, _), ParseAltStep(_, _, _)
RECURSIVE ParseCatAcc(_, _, _, _), ParseCatStep(_, _, _)
RECURSIVE ParseClassAcc(_, _, _), ParseNumAcc(_, _, _), FindChar(_, _, _)

FindChar(p, i, c) == IF i > Len(p) \/ Ch(p, i) = c THEN i ELSE FindChar(p, i + 1, c)

ParseNumAcc(p, i, acc) ==
    IF i <= Len(p) /\ IsDigit(Ch(p, i))
    THEN ParseNumAcc(p, i + 1, 10 * acc + DigitVal(Ch(p, i)))
    ELSE [v |-> acc, i |-> i]

\* the items of a character class, up to its closing bracket: <<lo, hi>> pairs
ParseClassAcc(p, i, items) ==
    IF i > Len(p) \/ Ch(p, i) = "]"
    THEN [items |-> items, i |-> i + 1]
    ELSE IF i + 2 <= Len(p) /\ Ch(p, i + 1) = "-" /\ Ch(p, i + 2) # "]"
         THEN ParseClassAcc(p, i + 3, Append(items, <<Ch(p, i), Ch(p, i + 2)>>))
         ELSE ParseClassAcc(p, i + 1, Append(items, <<Ch(p, i), Ch(p, i)>>))

\* a parse step's result: the node, the index after it, the groups so far
Step(n, i, ng) == [n |-> n, i |-> i, ng |-> ng]

\* the body r of a group closed by its parenthesis
Closed(r, idx) ==
    Step(IF idx = 0 THEN r.n ELSE [t |-> "grp", idx |-> idx, x |-> r.n], r.i + 1, r.ng)

ClassNode(r, ng) == Step([t |-> "set", items |-> r.items], r.i, ng)

ParseAtom(p, i, ng) ==
    CASE Slice(p, i, i + 2) = "(?:" -> Closed(ParseAlt(p, i + 3, ng), 0)
      [] Slice(p, i, i + 3) = "(?P<" -> Closed(ParseAlt(p, FindChar(p, i, ">") + 1, ng + 1), ng + 1)
      [] Ch(p, i) = "(" /\ Ch(p, i + 1) # "?" -> Closed(ParseAlt(p, i + 1, ng + 1), ng + 1)
      [] Ch(p, i) = "[" -> ClassNode(ParseClassAcc(p, i + 1, <<>>), ng)
      [] Ch(p, i) = "\\" /\ IsDigit(Ch(p, i + 1)) ->
            Step([t |-> "bref", idx |-> DigitVal(Ch(p, i + 1))], i + 2, ng)
      [] Ch(p, i) = "\\" /\ ~IsDigit(Ch(p, i + 1)) -> Step([t |-> "chr", c |-> Ch(p, i + 1)], i + 2, ng)
      [] Ch(p, i) = "." -> Step([t |-> "any"], i + 1, ng)
      [] Ch(p, i) = "^" -> Step([t |-> "bol"], i + 1, ng)
      [] Ch(p, i) = "$" -> Step([t |-> "eol"], i + 1, ng)
      [] OTHER   -> Step([t |-> "chr", c |-> Ch(p, i)], i + 1, ng)

Repeated(a, lo, hi, next) == Step([t |-> "rep", min |-> lo, max |-> hi, x |-> a.n], next, a.ng)

RepeatedN(a, k) == Repeated(a, k.v, k.v, k.i + 1)

\* the atom a with the quantifier that follows it, if any
Quantified(p, a) ==
    CASE Ch(p, a.i) = "*" -> Repeated(a, 0, -1, a.i + 1)
      [] Ch(p, a.i) = "+" -> Repeated(a, 1, -1, a.i + 1)
      [] Ch(p, a.i) = "?" -> Repeated(a, 0, 1, a.i + 1)
      [] Ch(p, a.i) = "{" -> RepeatedN(a, ParseNumAcc(p, a.i + 1, 0))
      [] OTHER   -> a

ParseRep(p, i, ng) == Quantified(p, ParseAtom(p, i, ng))

\* a literal character joins the literal before it: "IFCB" is one node
AppendNode(xs, n) ==
    IF n.t = "chr" /\ xs # <<>> /\ xs[Len(xs)].t = "chr"
    THEN [xs EXCEPT ![Len(xs)] = [t |-> "chr", c |-> xs[Len(xs)].c \o n.c]]
    ELSE Append(xs, n)

ParseCatStep(p, xs, r) == ParseCatAcc(p, r.i, r.ng, AppendNode(xs, r.n))

ParseCatAcc(p, i, ng, xs) ==
    IF i > Len(p) \/ Ch(p, i) \in {"|", ")"}
    THEN Step([t |-> "cat", xs |-> xs], i, ng)
    ELSE ParseCatStep(p, xs, ParseRep(p, i, ng))

ParseAltStep(p, alts, r) ==
    IF Ch(p, r.i) = "|"
    THEN ParseAltAcc(p, r.i + 1, r.ng, Append(alts, r.n))
    ELSE Step(IF alts = <<>> THEN r.n ELSE [t |-> "alt", xs |-> Append(alts, r.n)], r.i, r.ng)

ParseAltAcc(p, i, ng, alts) == ParseAltStep(p, alts, ParseCatAcc(p, i, ng, <<>>))

ParseAlt(p, i, ng) == ParseAltAcc(p, i, ng, <<>>)

CompiledFrom(pattern, r) == [pattern |-> pattern, ast |-> r.n, groups |-> r.ng]

\* re.compile(pattern): the compiled pattern, with its .groups
ReCompile(pattern) == CompiledFrom(pattern, ParseAlt(pattern, 1, 0))

(***************************************************************************)
(* The backtracking matcher.  MatchNode yields every way the node can      *)
(* match at index i, as <<[pos, caps]>> in the order the engine tries      *)
(* them (greedy repetitions longest first, alternatives left to right);    *)
(* the first is the match Python reports.  Sequences are split in halves   *)
(* rather than walked, which keeps the evaluation shallow.                 *)
(***************************************************************************)
InClass(c, items) ==
    \E k \in 1..Len(items) :
        \/ c = items[k][1]
        \/ /\ c \in OrdSet
           /\ items[k][1] \in OrdSet
           /\ items[k][2] \in OrdSet
           /\ Ord[items[k][1]] <= Ord[c]
           /\ Ord[c] <= Ord[items[k][2]]

\* whether the one-character node n accepts the character c
CharOk(n, c) ==
    CASE n.t = "chr" -> c = n.c
      [] n.t = "any" -> c # "" /\ c # "\n"
      [] n.t = "set" -> c # "" /\ InClass(c, n.items)
      [] OTHER       -> FALSE

IsCharNode(n) == n.t \in {"any", "set"} \/ (n.t = "chr" /\ Len(n.c) = 1)

\* the length of the longest run of characters from index i that n accepts
RunLength(n, s, i) ==
    CHOOSE k \in 0..(Len(s) - i + 1) :
        /\ \A j \in 0..(k - 1) : CharOk(n, Ch(s, i + j))
        /\ (k = Len(s) - i + 1 \/ ~CharOk(n, Ch(s, i + k)))

One(i, caps) == <<[pos |-> i, caps |-> caps]>>

\* a greedy repetition of a one-character node: the longest run first
CharRepFrom(n, i, caps, most) ==
    IF most < n.min THEN <<>>
    ELSE [j \in 1..(most - n.min + 1) |-> [pos |-> i + most - j + 1, caps |-> caps]]

CharRepUpTo(n, i, caps, run) ==
    CharRepFrom(n, i, caps, IF n.max # -1 /\ n.max < run THEN n.max ELSE run)

MatchCharRep(n, s, i, caps) == CharRepUpTo(n, i, caps, RunLength(n.x, s, i))

\* the results of a group's body, each with the group's text recorded
SetGroup(rs, idx, s, i) ==
    [j \in 1..Len(rs) |->
        [pos  |-> rs[j].pos,
         caps |-> [rs[j].caps EXCEPT ![idx] = Some(Slice(s, i, rs[j].pos - 1))]]]

\* a repetition after one more iteration
OneLess(n) ==
    [n EXCEPT !.min = IF n.min > 0 THEN n.min - 1 ELSE 0,
              !.max = IF n.max = -1 THEN -1 ELSE n.max - 1]

Half(xs, first) ==
    IF first THEN SubSeq(xs, 1, Len(xs) \div 2) ELSE SubSeq(xs, Len(xs) \div 2 + 1, Len(xs))

\* the results that consumed something after index i
Advanced(rs, i) == SelectSeq(rs, LAMBDA r : r.pos > i)

RECURSIVE MatchNode(_, _, _, _), MatchOver(_, _, _, _, _)

\* node n continued from each of the results rs[a..b], in order
MatchOver(n, s, rs, a, b) ==
    IF a > b THEN <<>>
    ELSE IF a = b THEN MatchNode(n, s, rs[a].pos, rs[a].caps)
    ELSE MatchOver(n, s, rs, a, (a + b) \div 2) \o MatchOver(n, s, rs, (a + b) \div 2 + 1, b)

MatchOverAll(n, s, rs) == MatchOver(n, s, rs, 1, Len(rs))

MatchNode(n, s, i, caps) ==
    CASE n.t = "chr" -> IF Slice(s, i, i + Len(n.c) - 1) = n.c THEN One(i + Len(n.c), caps) ELSE <<>>
      [] n.t \in {"any", "set"} -> IF CharOk(n, Ch(s, i)) THEN One(i + 1, caps) ELSE <<>>
      [] n.t = "bol" -> IF i = 1 THEN One(i, caps) ELSE <<>>
      [] n.t = "eol" -> IF i = Len(s) + 1 \/ (i = Len(s) /\ Ch(s, i) = "\n")
                        THEN One(i, caps) ELSE <<>>
      [] n.t = "bref" ->
            IF caps[n.idx] # None
               /\ Slice(s, i, i + Len(caps[n.idx][1]) - 1) = caps[n.idx][1]
            THEN One(i + Len(caps[n.idx][1]), caps) ELSE <<>>
      [] n.t = "cat" ->
            \* the first half, then the second half from each of its results
            IF n.xs = <<>> THEN One(i, caps)
            ELSE IF Len(n.xs) = 1 THEN MatchNode(n.xs[1], s, i, caps)
            ELSE MatchOverAll([t |-> "cat", xs |-> Half(n.xs, FALSE)], s,
                              MatchNode([t |-> "cat", xs |-> Half(n.xs, TRUE)], s, i, caps))
      [] n.t = "alt" ->
            IF Len(n.xs) = 1 THEN MatchNode(n.xs[1], s, i, caps)
            ELSE MatchNode(n.xs[1], s, i, caps)
                 \o MatchNode([t |-> "alt", xs |-> Tail(n.xs)], s, i, caps)
      [] n.t = "grp" -> SetGroup(MatchNode(n.x, s, i, caps), n.idx, s, i)
      [] n.t = "rep" ->
            \* greedy: more iterations first, then stopping here
            IF IsCharNode(n.x) THEN MatchCharRep(n, s, i, caps)
            ELSE (IF n.max # 0
                  THEN MatchOverAll(OneLess(n), s, Advanced(MatchNode(n.x, s, i, caps), i))
                  ELSE <<>>)
                 \o (IF n.min = 0 THEN One(i, caps) ELSE <<>>)

First(rs) == IF rs = <<>> THEN None ELSE Some(rs[1])

\* the match of compiled pattern r starting at index i of s: None, or
\* Some([pos |-> index after the match, caps |-> the groups])
MatchAt(r, s, i) == First(MatchNode(r.ast, s, i, [k \in 1..r.groups |-> None]))

\* r.match(string)
ReMatch(r, string) == MatchAt(r, string, 1)

(***************************************************************************)
(* re.sub(pattern, repl, string): every non-overlapping match, leftmost    *)
(* first, replaced by the expanded template.                               *)
(***************************************************************************)
RECURSIVE ExpandRepl(_, _, _), SubFrom(_, _, _, _)

GroupText(g) == IF g = None THEN "" ELSE g[1]

\* the replacement template: \N is group N, \\ a backslash, and an escape
\* that means nothing (such as \.) stays as written
ExpandRepl(repl, k, caps) ==
    IF \A j \in k..Len(repl) : Ch(repl, j) # "\\" THEN Slice(repl, k, Len(repl))
    ELSE IF Ch(repl, k) = "\\" /\ IsDigit(Ch(repl, k + 1))
         THEN GroupText(caps[DigitVal(Ch(repl, k + 1))]) \o ExpandRepl(repl, k + 2, caps)
         ELSE IF Ch(repl, k) = "\\" /\ Ch(repl, k + 1) = "\\"
              THEN "\\" \o ExpandRepl(repl, k + 2, caps)
              ELSE IF Ch(repl, k) = "\\"
                   THEN Slice(repl, k, k + 1) \o ExpandRepl(repl, k + 2, caps)
                   ELSE Ch(repl, k) \o ExpandRepl(repl, k + 1, caps)

NonEmpty(mt, j) == mt # None /\ mt[1].pos > j

\* the indices from i on at which r matches a non-empty text
MatchStarts(r, s, i) == {j \in i..Len(s) : NonEmpty(MatchAt(r, s, j), j)}

Least(js) == CHOOSE a \in js : \A b \in js : a <= b

\* s[i..j-1] kept, the match mt at j replaced, and on from its end
SubReplace(r, repl, s, i, j, mt) ==
    Slice(s, i, j - 1) \o ExpandRepl(repl, 1, mt.caps) \o SubFrom(r, repl, s, mt.pos)

SubAt(r, repl, s, i, j) == SubReplace(r, repl, s, i, j, MatchAt(r, s, j)[1])

SubNext(r, repl, s, i, js) ==
    IF js = {} THEN Slice(s, i, Len(s)) ELSE SubAt(r, repl, s, i, Least(js))

SubFrom(r, repl, s, i) == SubNext(r, repl, s, i, MatchStarts(r, s, i))

\* r.sub(repl, string) of a compiled pattern, and re.sub(pattern, repl, string)
CompiledSub(r, repl, string) == SubFrom(r, repl, string, 1)

ReSub(pattern, repl, string) == CompiledSub(ReCompile(pattern), repl, string)

(***************************************************************************)
(* timestamp2regex: the template rewritten by fifteen passes, in order.    *)
(***************************************************************************)
\* each pass: the pattern re.sub looks for and its replacement template
Passes ==
    << <<"(([0-9])\\2*)", "(?P<n\\2>[0-9]+)">>,
       <<"s+", "(?P<sss>[0-9]+)">>,
       <<"yyyy", "(?P<yyyy>[0-9]{4})">>,
       <<"mm", "(?P<mm>0[1-9]|1[0-2])">>,
       <<"dd", "(?P<dd>0[1-9]|[1-2][0-9]|3[0-1])">>,
       <<"DDD", "(?P<DDD>[0-3][0-9][0-9])">>,
       <<"HH", "(?P<HH>[0-1][0-9]|2[0-3])">>,
       <<"MM", "(?P<MM>[0-5][0-9])">>,
       <<"SS", "(?P<SS>[0-5][0-9])">>,
       <<"#", "[0-9]+">>,
       <<"i", "[a-zA-Z][a-zA-Z0-9_]*">>,
       <<"\\.ext", "(?:.(?P<ext>[a-zA-Z][a-zA-Z0-9_]*))">>,
       <<"\\.", "\\.">>,
       <<"\\\\.", ".">>,
       <<"any", ".*">> >>

\* the pattern after the first k passes
RECURSIVE AfterPasses(_, _)
AfterPasses(pattern, k) ==
    IF k = 0 THEN pattern
    ELSE CHOOSE out \in {ReSub(Passes[k][1], Passes[k][2], prev) :
                           prev \in {AfterPasses(pattern, k - 1)}} : TRUE

timestamp2regex(pattern) == AfterPasses(pattern, Len(Passes))

(***************************************************************************)
(* The patterns parse uses.                                                *)
(***************************************************************************)
V2Regex == timestamp2regex("(D(yyyymmddTHHMMSS)_IFCB111)(any)")
V1Regex == timestamp2regex("(IFCB1_(yyyy_DDD_HHMMSS))(any)")
TpeRegex == "(?:_([0-9]+))?(?:_([a-zA-Z][a-zA-Z0-9_]*))?(?:\\.([a-zA-Z][a-zA-Z0-9]*))?"
DirRegex == "^.*\\\\"
NamespaceRegex == "(.*/)?(.*)"
TsLabelRegex == "(?:.*/)?(.*)/$"

\* their compiled forms, each computed once
V2Compiled == ReCompile(V2Regex)
V1Compiled == ReCompile(V1Regex)
TpeCompiled == ReCompile(TpeRegex)
DirCompiled == ReCompile(DirRegex)
NamespaceCompiled == ReCompile(NamespaceRegex)
TsLabelCompiled == ReCompile(TsLabelRegex)


(***************************************************************************)
(* c and m.  Both are memoized by lru_cache; the memo never changes what   *)
(* they return, and is modelled apart (the compile cache below).  A list   *)
(* or tuple of group values is a sequence of optional strings.             *)
(***************************************************************************)
\* c(pattern): re.compile(pattern); the handles of parse's own patterns are
\* the ones computed above
c(pattern) ==
    CASE pattern = V2Regex        -> V2Compiled
      [] pattern = V1Regex        -> V1Compiled
      [] pattern = TpeRegex       -> TpeCompiled
      [] pattern = DirRegex       -> DirCompiled
      [] pattern = NamespaceRegex -> NamespaceCompiled
      [] pattern = TsLabelRegex   -> TsLabelCompiled
      [] OTHER                    -> ReCompile(pattern)

\* a bug: a single group is left wrapped
ColNeverScalar(o) == o

col_or_scalar(o) == IF Len(o) = 1 THEN o[1] ELSE o

nones(n) == col_or_scalar([k \in 1..n |-> None])

\* the groups of the match mt of a pattern with n groups
GroupsOf(mt, n) == IF mt = None THEN nones(n) ELSE col_or_scalar(mt[1].caps)

\* m's body once the pattern is compiled to r
MatchGroups(r, string) ==
    IF string = None THEN nones(r.groups)
    ELSE GroupsOf(ReMatch(r, string[1]), r.groups)

\* m(pattern, string): string is None or Some(text)
m(pattern, string) == MatchGroups(c(pattern), string)

(***************************************************************************)
(* parse.  A call either returns a value or raises: [raised, value], with  *)
(* raised = "" and value = Some(v) for a normal return of v.               *)
(***************************************************************************)
Returns(v) == [raised |-> "", value |-> Some(v)]
Raises(e) == [raised |-> e, value |-> None]

RECURSIVE JoinFrom(_, _, _)
JoinFrom(sep, parts, k) ==
    IF k > Len(parts) THEN ""
    ELSE (IF k > 1 THEN sep ELSE "") \o parts[k][1] \o JoinFrom(sep, parts, k + 1)

\* sep.join(parts): a TypeError when an item is None, not a string
StrJoin(sep, parts) ==
    IF \E k \in 1..Len(parts) : parts[k] = None THEN Raises("TypeError")
    ELSE Returns(JoinFrom(sep, parts, 1))

\* a bug: the year and the day of year run together
Yearday1Unseparated(year, day) == StrJoin("", <<year, day>>)

\* yearday of a schema-1 and of a schema-2 pid
Yearday1(year, day) == StrJoin("_", <<year, day>>)
Yearday2(year, month, day) == StrJoin("", <<year, month, day>>)

\* a bug: an absent product is left absent
DefaultProductKept(product) == product

\* product defaults to 'raw'
DefaultProduct(product) == IF product = None THEN Some("raw") ELSE product

\* a bug: the target is left out of the lid
DeriveLidNoTarget(bin_lid, target) == bin_lid

\* lid: the bin's lid, with the target when there is one
DeriveLid(bin_lid, target) ==
    IF target # None THEN StrJoin("_", <<bin_lid, target>>).value ELSE bin_lid

\* the dict parse returns: its locals, tpe deleted
ParseLocals(pid, namespace, suffix, ts_label, g, schema_version, timestamp_format, yearday, tpe) ==
    Returns([pid |-> pid, namespace |-> namespace, suffix |-> suffix,
             ts_label |-> ts_label, bin_lid |-> g.bin_lid,
             timestamp |-> g.timestamp, year |-> g.year, month |-> g.month,
             day |-> g.day, hour |-> g.hour, minute |-> g.minute,
             second |-> g.second, instrument |-> g.instrument,
             schema_version |-> schema_version,
             timestamp_format |-> timestamp_format, yearday |-> yearday,
             target |-> tpe[1], product |-> DefaultProduct(tpe[2]), extension |-> tpe[3],
             lid |-> DeriveLid(g.bin_lid, tpe[1])])

\* the syntax check, then target, product and extension
ParseRest(pid, namespace, suffix, ts_label, g, schema_version, timestamp_format, yd) ==
    IF yd.raised # "" THEN Raises(yd.raised)
    ELSE IF g.bin_lid = None THEN Raises("ValueError")
    ELSE ParseLocals(pid, namespace, suffix, ts_label, g, schema_version, timestamp_format,
                     yd.value, m(TpeRegex, g.tpe))

\* the groups of the schema-1 pattern; month keeps what the first unpacking gave it
ParseV1(pid, namespace, suffix, ts_label, month, v1) ==
    ParseRest(pid, namespace, suffix, ts_label,
              [bin_lid |-> v1[1], instrument |-> v1[2], timestamp |-> v1[3],
               year |-> v1[4], month |-> month, day |-> v1[5], hour |-> v1[6],
               minute |-> v1[7], second |-> v1[8], tpe |-> v1[9]],
              1, "%Y_%j_%H%M%S", Yearday1(v1[4], v1[5]))

\* the groups of the schema-2 pattern, or the schema-1 pattern when it fails
ParseV2(pid, namespace, suffix, ts_label, v2) ==
    IF v2[1] = None
    THEN ParseV1(pid, namespace, suffix, ts_label, v2[4], m(V1Regex, suffix))
    ELSE ParseRest(pid, namespace, suffix, ts_label,
                   [bin_lid |-> v2[1], timestamp |-> v2[2], year |-> v2[3],
                    month |-> v2[4], day |-> v2[5], hour |-> v2[6], minute |-> v2[7],
                    second |-> v2[8], instrument |-> v2[9], tpe |-> v2[10]],
                   2, "%Y%m%dT%H%M%S", Yearday2(v2[3], v2[4], v2[5]))

ParseSuffix(pid, namespace, suffix) ==
    ParseV2(pid, namespace, suffix, m(TsLabelRegex, namespace), m(V2Regex, suffix))

ParseSplit(pid, ns) == ParseSuffix(pid, ns[1], ns[2])

\* the pid with its Windows directories stripped
StripDirs(pid) == CompiledSub(c(DirRegex), "", pid)

ParseStripped(pid) == ParseSplit(pid, m(NamespaceRegex, Some(pid)))

parse(pid) == ParseStripped(StripDirs(pid))

(***************************************************************************)
(* The Pid class.  An object is [made, pid, memo]: memo is the value the   *)
(* lru_cache of the parsed property holds for it (None before the first    *)
(* successful parse; a call that raises caches nothing).                   *)
(***************************************************************************)
NoPid == [made |-> FALSE, pid |-> "", memo |-> None]

\* what a method gives: its outcome and the object after it
Outcome(out, self) == [out |-> out, self |-> self]

Memoized(self, r) ==
    Outcome(r, IF r.raised = "" THEN [self EXCEPT !.memo = r.value] ELSE self)

\* self.parsed
PidParsed(self) ==
    IF self.memo # None THEN Outcome(Returns(self.memo[1]), self)
    ELSE Memoized(self, parse(self.pid))

\* the constructor raises what self.parsed raises
PidParsedNow(r) ==
    IF r.out.raised # "" THEN Outcome(Raises(r.out.raised), NoPid)
    ELSE Outcome(Returns("Pid"), r.self)

\* Pid(pid, parse)
PidNew(pid, parseNow) ==
    IF parseNow THEN PidParsedNow(PidParsed([made |-> TRUE, pid |-> pid, memo |-> None]))
    ELSE Outcome(Returns("Pid"), [made |-> TRUE, pid |-> pid, memo |-> None])

\* only ValueError is caught
IsValidOf(r) ==
    IF r.out.raised = "" THEN Outcome(Returns(TRUE), r.self)
    ELSE IF r.out.raised = "ValueError" THEN Outcome(Returns(FALSE), r.self)
    ELSE Outcome(Raises(r.out.raised), r.self)

\* Pid.isvalid
isvalid(self) == IsValidOf(PidParsed(self))

\* the names Pid.__getattr__ serves from the parsed fields
PidParsedNames == {"bin_lid", "lid", "instrument", "namespace", "product", "target",
                   "ts_label", "schema_version"}

\* the attributes ordinary lookup finds on a Pid: the instance's and the class's
PidOwnNames == {"pid", "isvalid", "parsed", "timestamp", "__cmp__", "__init__",
                "__getattr__", "__repr__", "__str__"}

ParsedField(r, name) ==
    IF r.out.raised # "" THEN r ELSE Outcome(Returns(r.out.value[1][name]), r.self)

\* Pid.__getattr__(name), reached when ordinary lookup finds nothing
PidGetAttr(self, name) ==
    IF name \in PidParsedNames THEN ParsedField(PidParsed(self), name)
    ELSE Outcome(Raises("AttributeError"), self)

(***************************************************************************)
(* The identifiers parse is given: a prefix, a bin identifier or something *)
(* that is none, and a tail of target, product and extension characters.   *)
(***************************************************************************)
MaxTailLen == 2

TailChars == {"_", "0", "a", "."}

RECURSIVE TailsOfLen(_)
TailsOfLen(n) ==
    IF n = 0 THEN {""} ELSE {t \o ch : t \in TailsOfLen(n - 1), ch \in TailChars}

Tails ==
    UNION {TailsOfLen(n) : n \in 0..MaxTailLen}
    \cup {"_raw", "_00014.png", "_blob.zip", ".adc"}

Prefixes == {"", "x\\n/"}

Heads == {"D20160714T023910_IFCB101", "IFCB3_2008_013423", "IFCB1_2008_013_134423",
          "D20161314T023910_IFCB101", ""}

Inputs == {a \o b \o t : a \in Prefixes, b \in Heads, t \in Tails}

(***************************************************************************)
(* The state.  ret is the outcome of the last call; the other variables    *)
(* are the arguments and objects of the part of the program a              *)
(* specification exercises, and stay idle in the other specifications.     *)
(***************************************************************************)
VARIABLES ret,                     \* the outcome of the last call
          pidIn, pidObj,           \* parse and Pid: the pid text, the Pid object
          tsPattern,               \* timestamp2regex: its argument
          mPattern, mString,       \* m: its arguments
          cCache, cCompiles, cArg, \* c: its lru_cache, re.compile calls, its argument
          mlCache, mlCalls, mlArg, \* _get_ml_analyzed: its lru_cache, calls, the Bin
          srcBin, newBin           \* read: the Bin read and the Bin returned

parseVars == <<pidIn, pidObj>>
matchVars == <<tsPattern, mPattern, mString>>
compileVars == <<cCache, cCompiles, cArg>>
metricsVars == <<mlCache, mlCalls, mlArg>>
readVars == <<srcBin, newBin>>

vars == <<ret, parseVars, matchVars, compileVars, metricsVars, readVars>>

IdleParse == pidIn = "" /\ pidObj = [made |-> FALSE, pid |-> "", memo |-> None]
IdleMatch == tsPattern = "" /\ mPattern = "" /\ mString = None
IdleCompile == cCache = <<>> /\ cCompiles = <<>> /\ cArg = 0
IdleMetrics == mlCache = <<>> /\ mlCalls = <<>> /\ mlArg = 0
IdleRead == srcBin = <<>> /\ newBin = None

NoCall == [op |-> "init", raised |-> "", value |-> None]

Called(op, r) == [op |-> op, raised |-> r.raised, value |-> r.value]

InitParse ==
    /\ pidIn \in Inputs
    /\ pidObj = NoPid
    /\ ret = NoCall
    /\ IdleMatch /\ IdleCompile /\ IdleMetrics /\ IdleRead

\* parse(pid)
CallParse ==
    /\ ret.op = "init"
    /\ \E r \in {parse(pidIn)} : ret' = Called("parse", r)
    /\ UNCHANGED <<pidIn, pidObj, matchVars, compileVars, metricsVars, readVars>>

\* Pid(pid, parse=...)
CallPidNew ==
    /\ ret.op = "init"
    /\ \E parseNow \in BOOLEAN :
          \E r \in {PidNew(pidIn, parseNow)} :
              /\ pidObj' = r.self
              /\ ret' = Called("Pid", r.out)
    /\ UNCHANGED <<pidIn, matchVars, compileVars, metricsVars, readVars>>

\* pid.isvalid()
CallIsValid ==
    /\ pidObj.made
    /\ ret.op = "Pid"
    /\ \E r \in {isvalid(pidObj)} :
          /\ pidObj' = r.self
          /\ ret' = Called("isvalid", r.out)
    /\ UNCHANGED <<pidIn, matchVars, compileVars, metricsVars, readVars>>

NextParse == CallParse \/ CallPidNew \/ CallIsValid

SpecParse == InitParse /\ [][NextParse]_vars

(***************************************************************************)
(* What the claims about parse and Pid speak of, read off the input text   *)
(* itself rather than off parse's result.                                  *)
(***************************************************************************)
\* the index of the last ch in s, or 0
LastIndexOf(s, ch) ==
    IF \E k \in 1..Len(s) : Ch(s, k) = ch
    THEN CHOOSE k \in 1..Len(s) : Ch(s, k) = ch /\ \A j \in (k + 1)..Len(s) : Ch(s, j) # ch
    ELSE 0

AfterLast(s, ch) == Slice(s, LastIndexOf(s, ch) + 1, Len(s))

\* the text after the last '/', once any backslash-delimited prefix is stripped
SuffixOf(s) == AfterLast(AfterLast(s, "\\"), "/")

MatchesV2(s) == ReMatch(c(V2Regex), s) # None
MatchesV1(s) == ReMatch(c(V1Regex), s) # None

NeitherGrammar(s) == ~MatchesV2(SuffixOf(s)) /\ ~MatchesV1(SuffixOf(s))

IsAlpha(ch) == ch \in OrdSet /\ ~IsDigit(ch)
IsWord(ch) == ch \in OrdSet \/ ch = "_"

\* how many characters from index i on satisfy Ok
RunOf(s, i, Ok(_)) ==
    CHOOSE k \in 0..(Len(s) - i + 1) :
        /\ \A j \in 0..(k - 1) : Ok(Ch(s, i + j))
        /\ (k = Len(s) - i + 1 \/ ~Ok(Ch(s, i + k)))

\* where in the tail a product token would start: after "_<digits>", if any
ProductStart(tpe) ==
    IF Ch(tpe, 1) = "_" /\ IsDigit(Ch(tpe, 2)) THEN 2 + RunOf(tpe, 2, IsDigit) ELSE 1

HasProductToken(tpe) ==
    Ch(tpe, ProductStart(tpe)) = "_" /\ IsAlpha(Ch(tpe, ProductStart(tpe) + 1))

ProductToken(tpe) ==
    Slice(tpe, ProductStart(tpe) + 1, ProductStart(tpe) + RunOf(tpe, ProductStart(tpe) + 1, IsWord))

ParseOk == ret.op = "parse" /\ ret.raised = ""

Parsed == ret.value[1]

\* the text of the parsed pid after its bin identifier
TailOf(v) == Slice(v.suffix[1], Len(v.bin_lid[1]) + 1, Len(v.suffix[1]))

(***************************************************************************)
(* C1.  For every input whose suffix matches neither grammar, parse fails  *)
(* with the invalid-identifier error, ValueError, and with no other kind   *)
(* of error, and returns nothing.  The code raises TypeError instead: the  *)
(* yearday is joined from None fields before the syntax check is reached.  *)
(***************************************************************************)
C1_InvalidPidRaisesValueError ==
    (ret.op = "parse" /\ NeitherGrammar(pidIn))
        => (ret.raised = "ValueError" /\ ret.value = None)

(***************************************************************************)
(* C2.  Pid(s, parse=False).isvalid() never raises: it returns True when s *)
(* matches one of the two grammars and False when it matches neither.      *)
(* Fails with C1: the TypeError of parse is not the error isvalid catches. *)
(***************************************************************************)
C2_IsValidNeverRaises ==
    ret.op = "isvalid"
        => (ret.raised = "" /\ ret.value = Some(~NeitherGrammar(pidIn)))

(***************************************************************************)
(* C3.  For every string on which parse succeeds, lid = bin_lid when the   *)
(* target is None and lid = bin_lid + "_" + target when there is a target, *)
(* whatever the schema version, namespace, product and extension.          *)
(***************************************************************************)
C3_LidIsBinLidAndTarget ==
    ParseOk =>
        /\ Parsed.target = None => Parsed.lid = Parsed.bin_lid
        /\ Parsed.target # None
              => Parsed.lid = Some(Parsed.bin_lid[1] \o "_" \o Parsed.target[1])

C3_Witness ==
    /\ ParseOk
    /\ Parsed.target # None
    /\ Parsed.extension # None
    /\ Parsed.namespace # None
    /\ Parsed.schema_version = 1

(***************************************************************************)
(* C4.  The documented example IFCB3_2008_013423.adc is accepted by parse  *)
(* and yields schema_version 1, instrument "3", year "2008", extension     *)
(* "adc" and product "raw".  The schema-1 pattern wants a day of year and  *)
(* a time, IFCB3_2008_DDD_HHMMSS, so the example is rejected.              *)
(***************************************************************************)
C4_DocExampleParses ==
    (ret.op = "parse" /\ pidIn = "IFCB3_2008_013423.adc")
        => /\ ret.raised = ""
           /\ Parsed.schema_version = 1
           /\ Parsed.instrument = Some("3")
           /\ Parsed.year = Some("2008")
           /\ Parsed.extension = Some("adc")
           /\ Parsed.product = Some("raw")

(***************************************************************************)
(* C5, as claimed.  For every string on which parse succeeds, product is   *)
(* non-empty, and it is "raw" if and only if no product token appears      *)
(* after the bin identifier and optional target.  Refuted by a token that  *)
(* is itself spelled raw.                                                  *)
(***************************************************************************)
C5_RawIffNoProductToken ==
    ParseOk =>
        /\ Parsed.product # None
        /\ Parsed.product[1] # ""
        /\ (Parsed.product = Some("raw")) <=> ~HasProductToken(TailOf(Parsed))

(***************************************************************************)
(* C5, amended.  For every string on which parse succeeds, product is      *)
(* non-empty: it is the product token when one appears after the bin       *)
(* identifier and optional target, and "raw" when none appears.            *)
(***************************************************************************)
C5_ProductIsTokenOrRaw ==
    ParseOk =>
        /\ Parsed.product # None
        /\ Parsed.product[1] # ""
        /\ HasProductToken(TailOf(Parsed))
              => Parsed.product[1] = ProductToken(TailOf(Parsed))
        /\ ~HasProductToken(TailOf(Parsed)) => Parsed.product = Some("raw")

C5_Witness ==
    /\ ParseOk
    /\ HasProductToken(TailOf(Parsed))
    /\ Parsed.product = Some("raw")

(***************************************************************************)
(* C6.  No string matches both grammars, and for every successful parse    *)
(* schema_version is 1 or 2 and decides the rest: 2 gives the format       *)
(* %Y%m%dT%H%M%S and yearday = year + month + day; 1 gives %Y_%j_%H%M%S    *)
(* and yearday = year + "_" + day of year.                                 *)
(***************************************************************************)
C6_SchemaVersionDecides ==
    /\ ~(MatchesV2(SuffixOf(pidIn)) /\ MatchesV1(SuffixOf(pidIn)))
    /\ ParseOk =>
          /\ Parsed.schema_version \in {1, 2}
          /\ Parsed.schema_version = 2 <=> MatchesV2(SuffixOf(pidIn))
          /\ Parsed.schema_version = 2 =>
                /\ Parsed.timestamp_format = "%Y%m%dT%H%M%S"
                /\ Parsed.yearday
                     = Some(Parsed.year[1] \o Parsed.month[1] \o Parsed.day[1])
          /\ Parsed.schema_version = 1 =>
                /\ Parsed.timestamp_format = "%Y_%j_%H%M%S"
                /\ Parsed.yearday = Some(Parsed.year[1] \o "_" \o Parsed.day[1])

C6_Witness ==
    /\ ParseOk
    /\ Parsed.schema_version = 1
    /\ Parsed.yearday = Some("2008_013")

(***************************************************************************)
(* m on its own: any of the program's patterns, and a few others, matched  *)
(* against None, against text it matches and against text it does not.     *)
(***************************************************************************)
MatchPatterns ==
    {V2Regex, V1Regex, TpeRegex, DirRegex, NamespaceRegex, TsLabelRegex,
     "(D)|(I)", "(I[A-Z]+)"}

MatchTexts == Inputs \cup {"x/", "x/y/", "a\\b"}

MatchStrings == {None} \cup {Some(s) : s \in MatchTexts}

InitMatch ==
    /\ tsPattern = ""
    /\ mPattern \in MatchPatterns
    /\ mString \in MatchStrings
    /\ ret = NoCall
    /\ IdleParse /\ IdleCompile /\ IdleMetrics /\ IdleRead

\* m(pattern, string)
CallM ==
    /\ ret.op = "init"
    /\ \E r \in {m(mPattern, mString)} : ret' = Called("m", Returns(r))
    /\ UNCHANGED <<matchVars, parseVars, compileVars, metricsVars, readVars>>

SpecMatch == InitMatch /\ [][CallM]_vars

\* the capture groups of a pattern, counted in its text: every "(" that is
\* not escaped and does not open "(?:"
CountGroups(p) ==
    Cardinality({k \in 1..Len(p) :
                   /\ Ch(p, k) = "("
                   /\ Slice(p, k + 1, k + 2) # "?:"
                   /\ (k = 1 \/ Ch(p, k - 1) # "\\")})

\* m was given None or a text its pattern does not match
Unmatched == mString = None \/ ReMatch(c(mPattern), mString[1]) = None

MResult == ret.value[1]

(***************************************************************************)
(* C10.  For a pattern with n capture groups, m of None and m of a text    *)
(* the pattern does not match return the same: n Nones when n # 1, one     *)
(* unwrapped None when n = 1, n counted in the pattern and not in a match. *)
(* When the pattern matches and n = 1 the one captured value is returned   *)
(* unwrapped too.  (A list of no Nones and None are both <<>> here.)       *)
(***************************************************************************)
C10_NonesPerGroup ==
    ret.op = "m" =>
        /\ ret.raised = ""
        /\ (Unmatched /\ CountGroups(mPattern) # 1) =>
              /\ Len(MResult) = CountGroups(mPattern)
              /\ \A k \in 1..Len(MResult) : MResult[k] = None
        /\ (Unmatched /\ CountGroups(mPattern) = 1) => MResult = None
        /\ (~Unmatched /\ CountGroups(mPattern) = 1) =>
              MResult = ReMatch(c(mPattern), mString[1])[1].caps[1]

C10_Witness ==
    /\ ret.op = "m"
    /\ CountGroups(mPattern) = 1
    /\ mString # None
    /\ Unmatched
    /\ MResult = None

(***************************************************************************)
(* lru_cache.  A cache is the sequence of its entries [key, value], the    *)
(* least recently used first.  A hit renews the entry; a miss stores the   *)
(* new result and, the cache being over its maxsize, drops the oldest.     *)
(***************************************************************************)
\* the compile cache: lru_cache() of functools32, maxsize 100 by default
CompileCacheSize == 100

\* the metrics cache: lru_cache() of functools, maxsize 128 by default
MlCacheSize == 128

\* where the entry of key is in the cache, or 0
CacheIndex(cache, key) ==
    IF \E k \in 1..Len(cache) : cache[k].key = key
    THEN CHOOSE k \in 1..Len(cache) : cache[k].key = key
    ELSE 0

CacheRenew(cache, k) ==
    SubSeq(cache, 1, k - 1) \o SubSeq(cache, k + 1, Len(cache)) \o <<cache[k]>>

Evicted(cache, maxsize) == IF Len(cache) > maxsize THEN Tail(cache) ELSE cache

\* a bug: the result is not kept
CacheStoreNothing(cache, key, value, maxsize) == cache

CacheStore(cache, key, value, maxsize) ==
    Evicted(Append(cache, [key |-> key, value |-> value]), maxsize)

(***************************************************************************)
(* c on its own.  Templates are numbered as they come into use, and a      *)
(* compiled handle is <<template, n>>: the object the n-th compilation of  *)
(* the template made.  A call names one of the first two templates, the    *)
(* latest one or a new one.                                                *)
(***************************************************************************)
MaxTemplates == 102

Templates == 1..MaxTemplates

\* the templates compiled so far
InUse == Cardinality({t \in Templates : cCompiles[t] > 0})

InitCompile ==
    /\ cCache = <<>>
    /\ cCompiles = [t \in Templates |-> 0]
    /\ cArg = 0
    /\ ret = NoCall
    /\ IdleParse /\ IdleMatch /\ IdleMetrics /\ IdleRead

\* a cached handle is returned and renewed
CHit(k) ==
    /\ ret' = Called("c", Returns(cCache[k].value))
    /\ cCache' = CacheRenew(cCache, k)
    /\ UNCHANGED cCompiles

\* re.compile(pattern) makes a new handle, which the cache stores
CMiss(t) ==
    /\ ret' = Called("c", Returns(<<t, cCompiles[t] + 1>>))
    /\ cCache' = CacheStore(cCache, t, <<t, cCompiles[t] + 1>>, CompileCacheSize)
    /\ cCompiles' = [cCompiles EXCEPT ![t] = @ + 1]

\* c(pattern)
CallC ==
    /\ ret.op \in {"init", "c"}
    /\ \E t \in Templates \cap {1, 2, InUse, InUse + 1} :
          /\ cArg' = t
          /\ IF CacheIndex(cCache, t) # 0 THEN CHit(CacheIndex(cCache, t)) ELSE CMiss(t)
    /\ UNCHANGED <<parseVars, matchVars, metricsVars, readVars>>

SpecCompile == InitCompile /\ [][CallC]_vars

\* each template has been compiled at most once, and the call just made
\* returned the handle of that compilation
CompiledOnce ==
    /\ \A t \in Templates : cCompiles[t] <= 1
    /\ ret.op = "c" => (ret.raised = "" /\ ret.value = Some(<<cArg, 1>>))

(***************************************************************************)
(* C9, as claimed.  Over any calls of c with any number of distinct        *)
(* templates, each is compiled at most once and every later call returns   *)
(* the handle of that first compilation: nothing is evicted.  Refuted once *)
(* more templates are in use than the cache holds.                         *)
(***************************************************************************)
C9_NeverEvicted == CompiledOnce

(***************************************************************************)
(* C9, amended.  As long as no more than 100 distinct templates, the       *)
(* maxsize of the cache, have been given to c, each is compiled at most    *)
(* once and every later call returns the handle of that compilation.       *)
(***************************************************************************)
C9_CompiledOnceWithinMaxsize == InUse <= CompileCacheSize => CompiledOnce

C9_Witness ==
    /\ InUse = CompileCacheSize
    /\ ret.op = "c"
    /\ cArg = 1
    /\ cCache[Len(cCache)].key = 1
    /\ cCache[1].key = 2

(***************************************************************************)
(* The metrics of a Bin.  Bins are numbered as they come into use; the     *)
(* records of a Bin and what the metrics collaborator computes from them   *)
(* vary with its number.  _get_ml_analyzed is memoized by one lru_cache    *)
(* for the class, keyed by the Bin.                                        *)
(***************************************************************************)
MaxBins == 130

Bins == 1..MaxBins

\* the ADC records of Bin b: none, one or two rows
BinAdc(b) == [k \in 1..(b % 3) |-> [trigger |-> k + (b % 2), roi_width |-> 4 * (k % 2)]]

\* the collaborator: (ml_analyzed, look_time, run_time) of a Bin
compute_ml_analyzed(b) == <<5 * (b % 3), b % 2, 2 * ((b \div 3) % 2)>>

\* the cache and the calls after _get_ml_analyzed finds the entry at k
MlHit(st, k) ==
    [cache |-> CacheRenew(st.cache, k), calls |-> st.calls, value |-> st.cache[k].value]

MlMiss(st, b) ==
    [cache |-> CacheStore(st.cache, b, compute_ml_analyzed(b), MlCacheSize),
     calls |-> [st.calls EXCEPT ![b] = @ + 1],
     value |-> compute_ml_analyzed(b)]

\* self._get_ml_analyzed()
get_ml_analyzed(st, b) ==
    IF CacheIndex(st.cache, b) # 0 THEN MlHit(st, CacheIndex(st.cache, b))
    ELSE MlMiss(st, b)

\* a property's outcome with the cache and calls it leaves
Got(g, out) == [cache |-> g.cache, calls |-> g.calls, out |-> out]

ComponentOf(g, k) == Got(g, Returns(g.value[k]))

ml_analyzed(st, b) == ComponentOf(get_ml_analyzed(st, b), 1)
look_time(st, b) == ComponentOf(get_ml_analyzed(st, b), 2)
run_time(st, b) == ComponentOf(get_ml_analyzed(st, b), 3)

\* run_time - look_time: run_time is read first
InhibitFrom(rt, lt) == Got(lt, Returns(rt.out.value[1] - lt.out.value[1]))
inhibit_time(st, b) == InhibitFrom(run_time(st, b), look_time(run_time(st, b), b))

\* a bug: the first record is read, not the last
NTriggersOfFirstRow(b) ==
    IF Len(BinAdc(b)) = 0 THEN 0 ELSE BinAdc(b)[1].trigger

\* the trigger of the last record, 0 for an empty record set
n_triggers(b) ==
    IF Len(BinAdc(b)) = 0 THEN 0 ELSE BinAdc(b)[Len(BinAdc(b))].trigger

\* 1.0 * n_triggers / run_time, kept as the pair of its terms
RateOver(n, rt) ==
    IF rt.out.value[1] = 0 THEN Got(rt, Raises("ZeroDivisionError"))
    ELSE Got(rt, Returns([num |-> n, den |-> rt.out.value[1]]))

trigger_rate(st, b) == RateOver(n_triggers(b), run_time(st, b))

\* an access names the first Bin or a new one
Accessible == Bins \cap {1, Cardinality({b \in Bins : mlCalls[b] > 0}) + 1}

MlState == [cache |-> mlCache, calls |-> mlCalls]

Accessed(op, b, r) ==
    /\ mlArg' = b
    /\ mlCache' = r.cache
    /\ mlCalls' = r.calls
    /\ ret' = Called(op, r.out)
    /\ UNCHANGED <<parseVars, matchVars, compileVars, readVars>>

InitMetrics ==
    /\ mlCache = <<>>
    /\ mlCalls = [b \in Bins |-> 0]
    /\ mlArg = 0
    /\ ret = NoCall
    /\ IdleParse /\ IdleMatch /\ IdleCompile /\ IdleRead

AccessMlAnalyzed == \E b \in Accessible : Accessed("ml_analyzed", b, ml_analyzed(MlState, b))
AccessLookTime == \E b \in Accessible : Accessed("look_time", b, look_time(MlState, b))
AccessRunTime == \E b \in Accessible : Accessed("run_time", b, run_time(MlState, b))
AccessInhibitTime == \E b \in Accessible : Accessed("inhibit_time", b, inhibit_time(MlState, b))
AccessTriggerRate == \E b \in Accessible : Accessed("trigger_rate", b, trigger_rate(MlState, b))
AccessNTriggers == \E b \in Accessible : Accessed("n_triggers", b, Got(MlState, Returns(n_triggers(b))))

NextMetrics ==
    \/ AccessMlAnalyzed
    \/ AccessLookTime
    \/ AccessRunTime
    \/ AccessInhibitTime
    \/ AccessTriggerRate
    \/ AccessNTriggers

SpecMetrics == InitMetrics /\ [][NextMetrics]_vars

\* what an access gives when it is taken from one result of the collaborator
FromOneResult(op, res, n) ==
    CASE op = "ml_analyzed"  -> Returns(res[1])
      [] op = "look_time"    -> Returns(res[2])
      [] op = "run_time"     -> Returns(res[3])
      [] op = "inhibit_time" -> Returns(res[3] - res[2])
      [] op = "trigger_rate" ->
           IF res[3] = 0 THEN Raises("ZeroDivisionError")
           ELSE Returns([num |-> n, den |-> res[3]])

(***************************************************************************)
(* C8.  Whatever the accesses to ml_analyzed, look_time, run_time,         *)
(* inhibit_time and trigger_rate of a Bin, and of any number of other      *)
(* Bins in between, compute_ml_analyzed is invoked at most once for the    *)
(* Bin and every access returns the components of that one result.  The    *)
(* cache is one lru_cache of 128 entries for all Bins: 128 other Bins      *)
(* evict the entry and the collaborator is invoked again.                  *)
(***************************************************************************)
C8_ComputedOncePerBin ==
    /\ \A b \in Bins : mlCalls[b] <= 1
    /\ ret.op \in {"ml_analyzed", "look_time", "run_time", "inhibit_time", "trigger_rate"} =>
          Called(ret.op, FromOneResult(ret.op, compute_ml_analyzed(mlArg), n_triggers(mlArg)))
            = ret

(***************************************************************************)
(* C11.  For every Bin, n_triggers is the trigger of the last record, and  *)
(* 0, without raising, when there are no records; trigger_rate is          *)
(* n_triggers over run_time (the pair of the two here), and raises the     *)
(* division fault, ZeroDivisionError, when run_time is 0.                  *)
(***************************************************************************)
C11_TriggersOfLastRecord ==
    /\ ret.op = "n_triggers" =>
          /\ ret.raised = ""
          /\ Len(BinAdc(mlArg)) = 0 => ret.value = Some(0)
          /\ Len(BinAdc(mlArg)) > 0 =>
                ret.value = Some(BinAdc(mlArg)[Len(BinAdc(mlArg))].trigger)
    /\ (ret.op = "trigger_rate" /\ compute_ml_analyzed(mlArg)[3] = 0) =>
          (ret.raised = "ZeroDivisionError" /\ ret.value = None)
    /\ (ret.op = "trigger_rate" /\ compute_ml_analyzed(mlArg)[3] # 0) =>
          /\ ret.raised = ""
          /\ ret.value[1].den = compute_ml_analyzed(mlArg)[3]
          /\ Len(BinAdc(mlArg)) = 0 => ret.value[1].num = 0
          /\ Len(BinAdc(mlArg)) > 0 =>
                ret.value[1].num = BinAdc(mlArg)[Len(BinAdc(mlArg))].trigger

C11_Witness ==
    /\ ret.op = "trigger_rate"
    /\ ret.raised = "ZeroDivisionError"
    /\ Len(BinAdc(mlArg)) = 2
    /\ compute_ml_analyzed(mlArg)[3] = 0

(***************************************************************************)
(* read.  A Bin is [pid, headers, adc, images, entered, exited]: its Pid   *)
(* object, header mapping, ADC records and images by target number, and    *)
(* how often __enter__ and __exit__ have been called on it.                *)
(***************************************************************************)
MaxRows == 2

PidObjects ==
    {PidNew(p, parseNow).self :
        p \in {"D20160714T023910_IFCB101", "IFCB1_2008_013_134423"}, parseNow \in BOOLEAN}

HeaderMaps == [temperature : {20, 21}, humidity : {50, 51}]

AdcTables == UNION {[1..n -> [trigger : {1, 2}, roi_width : {0, 4}]] : n \in 0..MaxRows}

\* the images of the targets that have one
ImagesOf(adc) == [k \in {j \in 1..Len(adc) : adc[j].roi_width > 0} |-> <<"image", k>>]

SourceBins ==
    {[pid |-> o, headers |-> h, adc |-> a, images |-> ImagesOf(a),
      entered |-> 0, exited |-> 0] : o \in PidObjects, h \in HeaderMaps, a \in AdcTables}

\* attribute lookup on a Pid: the class's own names, then __getattr__
PidLookup(self, name) ==
    IF name \in PidOwnNames THEN Outcome(Returns(name), self) ELSE PidGetAttr(self, name)

\* BaseBin.lid: self.pid.bin_lid
lid(self) == PidLookup(self.pid, "bin_lid")

\* __enter__ returns self and __exit__ passes: neither changes the Bin
Entered(self) == [self EXCEPT !.entered = @ + 1]
Exited(self) == [self EXCEPT !.exited = @ + 1]

\* the body of read once self.pid.copy has been looked up
ReadBody(self, cp) ==
    IF cp.out.raised # "" THEN Raises(cp.out.raised)
    ELSE Returns([pid |-> cp.self, headers |-> self.headers, adc |-> self.adc,
                  images |-> [k \in DOMAIN self.images |-> self.images[k]],
                  entered |-> 0, exited |-> 0])

\* read(): with self, the body; __exit__ lets an exception pass
read(self) == Outcome(ReadBody(self, PidLookup(self.pid, "copy")), Exited(Entered(self)))

InitRead ==
    /\ srcBin \in SourceBins
    /\ newBin = None
    /\ ret = NoCall
    /\ IdleParse /\ IdleMatch /\ IdleCompile /\ IdleMetrics

\* bin.lid
CallLid ==
    /\ ret.op = "init"
    /\ \E r \in {lid(srcBin)} :
          /\ srcBin' = [srcBin EXCEPT !.pid = r.self]
          /\ ret' = Called("lid", r.out)
    /\ UNCHANGED <<newBin, parseVars, matchVars, compileVars, metricsVars>>

\* bin.read()
CallRead ==
    /\ ret.op \in {"init", "lid"}
    /\ \E r \in {read(srcBin)} :
          /\ srcBin' = r.self
          /\ newBin' = r.out.value
          /\ ret' = [op |-> "read", raised |-> r.out.raised,
                     value |-> IF r.out.raised = "" THEN Some("Bin") ELSE None]
    /\ UNCHANGED <<parseVars, matchVars, compileVars, metricsVars>>

NextRead == CallLid \/ CallRead

SpecRead == InitRead /\ [][NextRead]_vars

(***************************************************************************)
(* C7.  read() on any Bin completes without error and returns a new Bin    *)
(* whose pid, headers, records and images equal those of the source, the   *)
(* source having been entered and exited exactly once.  The code raises    *)
(* AttributeError: read calls self.pid.copy(), and Pid has no copy.        *)
(***************************************************************************)
C7_ReadReturnsEqualBin ==
    ret.op = "read" =>
        /\ ret.raised = ""
        /\ newBin # None
        /\ newBin[1].pid = srcBin.pid
        /\ newBin[1].headers = srcBin.headers
        /\ newBin[1].adc = srcBin.adc
        /\ newBin[1].images = srcBin.images
        /\ srcBin.entered = 1
        /\ srcBin.exited = 1

(***************************************************************************)
(* timestamp2regex on its own: a template of a few pieces in a group, as   *)
(* parse writes its templates, converted and then matched against a text.  *)
(***************************************************************************)
MaxPieces == 3

MaxTextLen == 3

RECURSIVE TemplateBodies(_)
TemplateBodies(n) ==
    IF n = 0 THEN {""}
    ELSE TemplateBodies(n - 1)
         \cup {b \o x : b \in TemplateBodies(n - 1), x \in {"a", ".", "\\.", ".ext", "#"}}

\* a template has at most one ".ext": re.compile rejects a pattern that
\* defines the group name ext twice
TemplateInputs ==
    {"(" \o b \o ")" :
        b \in {x \in TemplateBodies(MaxPieces) :
                 Cardinality({k \in 1..Len(x) : Slice(x, k, k + 3) = ".ext"}) <= 1}}

RECURSIVE TemplateTexts(_)
TemplateTexts(n) ==
    IF n = 0 THEN {""}
    ELSE TemplateTexts(n - 1)
         \cup {s \o ch : s \in TemplateTexts(n - 1), ch \in {"a", ".", "1"}}

InitTemplate ==
    /\ tsPattern \in TemplateInputs
    /\ mPattern = ""
    /\ mString = None
    /\ ret = NoCall
    /\ IdleParse /\ IdleCompile /\ IdleMetrics /\ IdleRead

\* timestamp2regex(pattern)
CallTimestamp2Regex ==
    /\ ret.op = "init"
    /\ \E r \in {timestamp2regex(tsPattern)} :
          /\ mPattern' = r
          /\ ret' = Called("timestamp2regex", Returns(r))
    /\ UNCHANGED <<tsPattern, mString, parseVars, compileVars, metricsVars, readVars>>

\* m(timestamp2regex(pattern), string)
CallMatch ==
    /\ ret.op = "timestamp2regex"
    /\ \E s \in TemplateTexts(MaxTextLen) :
          /\ mString' = Some(s)
          /\ \E r \in {m(mPattern, Some(s))} : ret' = Called("m", Returns(r))
    /\ UNCHANGED <<tsPattern, mPattern, parseVars, compileVars, metricsVars, readVars>>

SpecTemplate == InitTemplate /\ [][CallTimestamp2Regex \/ CallMatch]_vars

\* the regex the docstring describes, each piece of the template translated
\* on its own: ".ext" a literal dot and the extension group, "." a literal
\* dot, "\." the regex dot, "#" a string of digits
RECURSIVE IntendedFrom(_, _)
IntendedFrom(s, i) ==
    IF i > Len(s) THEN ""
    ELSE IF Slice(s, i, i + 3) = ".ext"
         THEN "(?:\\.(?P<ext>[a-zA-Z][a-zA-Z0-9_]*))" \o IntendedFrom(s, i + 4)
    ELSE IF Slice(s, i, i + 1) = "\\." THEN "." \o IntendedFrom(s, i + 2)
    ELSE IF Ch(s, i) = "." THEN "\\." \o IntendedFrom(s, i + 1)
    ELSE IF Ch(s, i) = "#" THEN "[0-9]+" \o IntendedFrom(s, i + 1)
    ELSE Ch(s, i) \o IntendedFrom(s, i + 1)

IntendedRegex(s) == IntendedFrom(s, 1)

(***************************************************************************)
(* C12.  The passes of timestamp2regex run in a fixed order and none       *)
(* rewrites what an earlier one injected: a "." of the template, and the   *)
(* separator of ".ext", come out as an escaped dot that matches only ".",  *)
(* and only an escaped dot of the template comes out as the wildcard.  In  *)
(* the code the pass for "\." runs after the pass that escapes dots and    *)
(* undoes it: every dot comes out as the wildcard.                         *)
(***************************************************************************)
C12_DotsStayLiteral ==
    /\ ret.op = "timestamp2regex" => ret.value = Some(IntendedRegex(tsPattern))
    /\ (ret.op = "m" /\ tsPattern # "") =>
          ret.value = Some(m(IntendedRegex(tsPattern), mString))

=============================================================================
